---- MODULE Spec2Model ----
(***************************************************************************)
(* The expense record store of the Expense Tracker: the ExpenseModel class *)
(* (create / getById / update / delete over one SQLite table) and the      *)
(* status mapping of the REST boundary in front of it.                      *)
(*                                                                         *)
(* Text is held as a sequence of one-character strings, so that trimming,  *)
(* the date regular expression and length are computed, not assumed.       *)
(* Amounts are held in thousandths (12.5 is 12500), so that an amount with *)
(* more than two decimals is a value of the model.                         *)
(***************************************************************************)
EXTENDS Integers, Sequences, FiniteSets, TLC

\* ------------------------------------------------------------------ bounds
\* Steps (calls of the model's methods, seconds passing) in one behaviour.
MaxOps == 3

\* The HTTP requests the server receives in a run.
MaxConns == 2

\* ------------------------------------------------- documented field limits
\* SPECIFICATION.md, data model: description max 200 chars.
DescMax == 200
\* SPECIFICATION.md, data model: amount max 999999.99 (in thousandths).
AmountMax == 999999990

\* ------------------------------------------------------- JavaScript values
\* A JavaScript value: its typeof-kind k, its number n (thousandths) when it
\* is a finite number, its characters s when it is a string.
Undefined == [k |-> "undefined", n |-> 0, s |-> <<>>]
Null == [k |-> "null", n |-> 0, s |-> <<>>]
NaN == [k |-> "nan", n |-> 0, s |-> <<>>]
Num(x) == [k |-> "number", n |-> x, s |-> <<>>]
Str(chars) == [k |-> "string", n |-> 0, s |-> chars]

\* typeof v === 'string'
IsString(v) == v.k = "string"

\* !v is false: undefined, null, the empty string, 0 and NaN are falsy.
Truthy(v) ==
  CASE v.k = "number" -> v.n # 0
    [] v.k = "string" -> v.s # <<>>
    [] OTHER -> FALSE

Digits == <<"0", "1", "2", "3", "4", "5", "6", "7", "8", "9">>

IsDigit(c) == \E i \in 1..10 : Digits[i] = c

DigitVal(c) == (CHOOSE i \in 1..10 : Digits[i] = c) - 1

IsSpace(c) == c \in {" ", "\t", "\n"}

\* String.prototype.trim: drop the white space at both ends.
RECURSIVE TrimStart(_)
TrimStart(s) ==
  IF s # <<>> /\ IsSpace(Head(s)) THEN TrimStart(Tail(s)) ELSE s

RECURSIVE TrimEnd(_)
TrimEnd(s) ==
  IF s # <<>> /\ IsSpace(s[Len(s)]) THEN TrimEnd(SubSeq(s, 1, Len(s) - 1)) ELSE s

Trim(s) == TrimEnd(TrimStart(s))

\* The index after the longest run of digits of s that starts at i.
RECURSIVE DigitsEnd(_, _)
DigitsEnd(s, i) ==
  IF i <= Len(s) /\ IsDigit(s[i]) THEN DigitsEnd(s, i + 1) ELSE i

\* The value of the digits s[i..j-1] read as a decimal integer.
RECURSIVE DigitsValue(_, _, _)
DigitsValue(s, i, j) ==
  IF i >= j THEN 0 ELSE DigitsValue(s, i, j - 1) * 10 + DigitVal(s[j - 1])

\* The fraction digits s[i..j-1] in thousandths (digits after the third are
\* below the model's resolution).
FractionValue(s, i, j) ==
  LET d(p) == IF i + p < j THEN DigitVal(s[i + p]) ELSE 0
  IN d(0) * 100 + d(1) * 10 + d(2)

\* parseFloat of a string over white space, sign, digits, '.' and letters:
\* skip leading white space, read [sign] digits [. digits], ignore the rest;
\* NaN when no digit was read.
ParseFloatString(str) ==
  LET s == TrimStart(str)
      neg == s # <<>> /\ s[1] = "-"
      b == IF s # <<>> /\ s[1] \in {"-", "+"} THEN 2 ELSE 1
      e == DigitsEnd(s, b)
      hasDot == e <= Len(s) /\ s[e] = "."
      f == IF hasDot THEN DigitsEnd(s, e + 1) ELSE e
      mag == DigitsValue(s, b, e) * 1000
               + (IF hasDot THEN FractionValue(s, e + 1, f) ELSE 0)
  IN IF e = b /\ (~hasDot \/ f = e + 1) THEN NaN
     ELSE Num(IF neg THEN 0 - mag ELSE mag)

\* parseFloat(v): a number is returned as it is, a string is parsed, and
\* undefined and null (read as "undefined", "null") give NaN.
ParseFloat(v) ==
  CASE v.k = "number" -> v
    [] v.k = "string" -> ParseFloatString(v.s)
    [] OTHER -> NaN

IsNaN(v) == v.k = "nan"

\* /^\d{4}-\d{2}-\d{2}$/.test(v). The argument is converted to a string; the
\* string of undefined, null, NaN or a number holds no such pattern.
MatchesDateFormat(v) ==
  /\ v.k = "string"
  /\ Len(v.s) = 10
  /\ \A i \in {1, 2, 3, 4, 6, 7, 9, 10} : IsDigit(v.s[i])
  /\ v.s[5] = "-"
  /\ v.s[8] = "-"

\* String(n) for a natural number.
RECURSIVE ToDigits(_)
ToDigits(n) ==
  IF n < 10 THEN <<Digits[n + 1]>> ELSE ToDigits(n \div 10) \o <<Digits[(n % 10) + 1]>>

\* s.padStart(2, '0')
PadStart2(s) == IF Len(s) < 2 THEN <<"0">> \o s ELSE s

\* `${year}-${String(month).padStart(2, '0')}-${day}` with day given as text.
DatePrefix(year, month) == ToDigits(year) \o <<"-">> \o PadStart2(ToDigits(month)) \o <<"-">>

\* The ISO text of a calendar date.
DateStr(year, month, day) == DatePrefix(year, month) \o PadStart2(ToDigits(day))

\* ------------------------------------------------------------ the store
\* A category literal is held as one token: the code compares categories
\* only for equality (Array.prototype.includes, the CHECK constraint).
VALID_CATEGORIES ==
  << <<"Groceries">>, <<"Transport">>, <<"Housing and Utilities">>,
     <<"Restaurants and Cafes">>, <<"Health and Medicine">>,
     <<"Clothing & Footwear">>, <<"Entertainment">> >>

\* VALID_CATEGORIES.includes(v): strict equality with one of the literals.
IsValidCategory(v) ==
  /\ v.k = "string"
  /\ \E i \in 1..Len(VALID_CATEGORIES) : VALID_CATEGORIES[i] = v.s

VARIABLES
  rows,     \* the expenses table: id -> row
  seq,      \* sqlite_sequence of the table: the largest id ever given
  now,      \* the store's clock, in seconds (CURRENT_TIMESTAMP)
  ops,      \* calls made so far
  last,     \* the last call: its operation, arguments, outcome and time
  prev,     \* the table as it was before the last call
  removed,  \* the ids deleted so far
  answer    \* the last list request and its response, until another call

\* The store and the history of the calls made on it.
storeVars == <<rows, seq, now, ops, last, prev, removed, answer>>

VARIABLES
  conns     \* the HTTP requests received: what was asked, what was sent

\* The page in the browser (public/js/app.js).
VARIABLES
  fetchCall,        \* the fetchWithTimeout call under way: its promise
  timeoutId,        \* the abort timer of that call
  online,           \* navigator.onLine
  snackbar,         \* the snackbar element: hidden or not, its message
  snackbarTimeout,  \* the id of the auto-dismiss timer, 0 for null
  timers,           \* the timers setTimeout has started, by id
  selectedDate,     \* state.selectedDate
  selectedYear,     \* state.selectedYear
  selectedMonth,    \* state.selectedMonth
  nextDayBtn,       \* elements.nextDayBtn.disabled
  nextMonthBtn,     \* elements.nextMonthBtn.disabled
  tz,               \* the browser's time zone: hours east of UTC
  currentView,      \* state.currentView
  stateFilters,     \* state.filters
  isLoading,        \* state.isLoading (the loading overlay is shown)
  expenses,         \* state.expenses: the response it was last set from
  loads,            \* the loadExpenses calls awaiting their response
  saveBtn,          \* elements.saveBtn: disabled, textContent
  submits,          \* the handleFormSubmit calls that have not returned
  lastNav           \* the last navigation handled and the date before it

fetchVars == <<fetchCall, timeoutId, online>>

snackVars == <<snackbar, snackbarTimeout, timers>>

navVars == <<selectedDate, selectedYear, selectedMonth, nextDayBtn, nextMonthBtn, tz>>

loadVars == <<currentView, stateFilters, isLoading, expenses, loads>>

formVars == <<saveBtn, submits>>

pageVars == <<fetchVars, snackVars, navVars, loadVars, formVars, lastNav>>

vars == <<storeVars, conns, pageVars>>

\* The result of a SELECT that found no row / found the row r.
NoRow == <<>>

\* SELECT * FROM expenses WHERE id = ?  (undefined when there is no row)
getById(t, id) == IF id \in DOMAIN t THEN <<t[id]>> ELSE NoRow

\* The largest id of table t, 0 for the empty table.
MaxRowid(t) == IF DOMAIN t = {} THEN 0 ELSE CHOOSE i \in DOMAIN t : \A j \in DOMAIN t : j <= i

\* Mutation: INTEGER PRIMARY KEY without AUTOINCREMENT, which gives one more
\* than the largest id now in the table.
NextRowidOfTable(t, s) == MaxRowid(t) + 1

\* Mutation: the smallest id that is not in the table (a freed id is given
\* again).
NextRowidFirstFree(t, s) == CHOOSE i \in 1..(s + 1) : i \notin DOMAIN t /\ \A j \in 1..(i - 1) : j \in DOMAIN t

\* INTEGER PRIMARY KEY AUTOINCREMENT: one more than the largest id the table
\* has ever held.
NextRowid(t, s) == s + 1

\* ExpenseModel.create, the four checks in the order the code makes them:
\* each is TRUE when the check throws.
CreateDescriptionBad(e) ==
  ~Truthy(e.description) \/ ~IsString(e.description) \/ Trim(e.description.s) = <<>>

CreateAmountBad(e) ==
  \/ e.amount.k = "undefined"
  \/ e.amount.k = "null"
  \/ IsNaN(ParseFloat(e.amount))
  \/ ParseFloat(e.amount).n < 0

CreateCategoryBad(e) == ~Truthy(e.category) \/ ~IsValidCategory(e.category)

CreateDateBad(e) == ~Truthy(e.date) \/ ~MatchesDateFormat(e.date)

\* The field named by the Error that create throws, "none" when all pass.
CreateError(e) ==
  IF CreateDescriptionBad(e) THEN "description"
  ELSE IF CreateAmountBad(e) THEN "amount"
  ELSE IF CreateCategoryBad(e) THEN "category"
  ELSE IF CreateDateBad(e) THEN "date"
  ELSE "none"

\* Mutation: update tests the description for emptiness before trimming.
UpdateDescriptionUntrimmedTest(e) ==
  e.description.k # "undefined"
    /\ (~IsString(e.description) \/ e.description.s = <<>>)

\* ExpenseModel.update, the four checks: a field that is undefined is not
\* checked.
UpdateDescriptionBad(e) ==
  e.description.k # "undefined"
    /\ (~IsString(e.description) \/ Trim(e.description.s) = <<>>)

UpdateAmountBad(e) ==
  e.amount.k # "undefined"
    /\ (IsNaN(ParseFloat(e.amount)) \/ ParseFloat(e.amount).n < 0)

\* Mutation: update without the category check.
UpdateCategoryUnchecked(e) == FALSE

UpdateCategoryBad(e) == e.category.k # "undefined" /\ ~IsValidCategory(e.category)

UpdateDateBad(e) == e.date.k # "undefined" /\ ~MatchesDateFormat(e.date)

\* The field named by the Error that update throws, "none" when all pass.
UpdateError(e) ==
  IF UpdateDescriptionBad(e) THEN "description"
  ELSE IF UpdateAmountBad(e) THEN "amount"
  ELSE IF UpdateCategoryBad(e) THEN "category"
  ELSE IF UpdateDateBad(e) THEN "date"
  ELSE "none"

\* What create does with candidate e: it throws before touching the store
\* when a check fails, else it inserts.
CreateOutcome(e) == IF CreateError(e) # "none" THEN "throw" ELSE "ok"

\* Mutation: update checks the fields before it looks the record up.
UpdateOutcomeChecksFirst(existing, e) ==
  IF UpdateError(e) # "none" THEN "throw"
  ELSE IF existing = NoRow THEN "null"
  ELSE "ok"

\* What update does: null when getById found no row (before any check),
\* a throw when a check fails, else the UPDATE.
UpdateOutcome(existing, e) ==
  IF existing = NoRow THEN "null"
  ELSE IF UpdateError(e) # "none" THEN "throw"
  ELSE "ok"

\* Mutation: delete without the lookup, which reports success for any id.
DeleteOutcomeUnchecked(existing) == "true"

\* What delete does: false when getById found no row, else the DELETE.
DeleteOutcome(existing) == IF existing = NoRow THEN "false" ELSE "true"

\* Mutation: INSERT of the description as given, not trimmed.
InsertedRowUntrimmed(id, e, t) ==
  [id |-> id,
   description |-> e.description.s,
   amount |-> ParseFloat(e.amount).n,
   category |-> e.category.s,
   date |-> e.date.s,
   created_at |-> t,
   updated_at |-> t]

\* The row INSERT writes for candidate e: the trimmed description, the parsed
\* amount, and both timestamps from the column default CURRENT_TIMESTAMP.
InsertedRow(id, e, t) ==
  [id |-> id,
   description |-> Trim(e.description.s),
   amount |-> ParseFloat(e.amount).n,
   category |-> e.category.s,
   date |-> e.date.s,
   created_at |-> t,
   updated_at |-> t]

\* Mutation: UPDATE binds the category of the body also when it is undefined.
UpdatedRowCategoryUnmerged(existing, e, t) ==
  [id |-> existing.id,
   description |-> IF e.description.k # "undefined" THEN Trim(e.description.s)
                   ELSE existing.description,
   amount |-> IF e.amount.k # "undefined" THEN ParseFloat(e.amount).n
              ELSE existing.amount,
   category |-> e.category.s,
   date |-> IF e.date.k # "undefined" THEN e.date.s ELSE existing.date,
   created_at |-> existing.created_at,
   updated_at |-> t]

\* Mutation: UPDATE binds the description of the body also when it is
\* undefined, which wipes a description an earlier update has set.
UpdatedRowDescriptionUnmerged(existing, e, t) ==
  [id |-> existing.id,
   description |-> IF e.description.k # "undefined" THEN Trim(e.description.s)
                   ELSE <<>>,
   amount |-> IF e.amount.k # "undefined" THEN ParseFloat(e.amount).n
              ELSE existing.amount,
   category |-> IF e.category.k # "undefined" THEN e.category.s
                ELSE existing.category,
   date |-> IF e.date.k # "undefined" THEN e.date.s ELSE existing.date,
   created_at |-> existing.created_at,
   updated_at |-> t]

\* Mutation: UPDATE also sets created_at = CURRENT_TIMESTAMP.
UpdatedRowTouchesCreated(existing, e, t) ==
  [id |-> existing.id,
   description |-> IF e.description.k # "undefined" THEN Trim(e.description.s)
                   ELSE existing.description,
   amount |-> IF e.amount.k # "undefined" THEN ParseFloat(e.amount).n
              ELSE existing.amount,
   category |-> IF e.category.k # "undefined" THEN e.category.s
                ELSE existing.category,
   date |-> IF e.date.k # "undefined" THEN e.date.s ELSE existing.date,
   created_at |-> t,
   updated_at |-> t]

\* The row UPDATE writes over existing: each supplied field, the existing
\* value for a field that is undefined, and updated_at = CURRENT_TIMESTAMP.
UpdatedRow(existing, e, t) ==
  [id |-> existing.id,
   description |-> IF e.description.k # "undefined" THEN Trim(e.description.s)
                   ELSE existing.description,
   amount |-> IF e.amount.k # "undefined" THEN ParseFloat(e.amount).n
              ELSE existing.amount,
   category |-> IF e.category.k # "undefined" THEN e.category.s
                ELSE existing.category,
   date |-> IF e.date.k # "undefined" THEN e.date.s ELSE existing.date,
   created_at |-> existing.created_at,
   updated_at |-> t]

\* DELETE FROM expenses WHERE id = ?
DeletedFrom(t, id) == [i \in DOMAIN t \ {id} |-> t[i]]

\* ------------------------------------------------- the REST boundary
\* handleApiRequest: the status sent for each outcome of the model call.
PostStatus(outcome) == IF outcome = "throw" THEN 400 ELSE 201

PutStatus(outcome) ==
  IF outcome = "throw" THEN 400 ELSE IF outcome = "null" THEN 404 ELSE 200

\* Mutation: a successful DELETE answered like a successful GET.
DeleteStatusOk(outcome) == IF outcome = "false" THEN 404 ELSE 200

DeleteStatus(outcome) == IF outcome = "false" THEN 404 ELSE 204

GetStatus(outcome) == IF outcome = "undefined" THEN 404 ELSE 200

\* ------------------------------------------------------- the inputs
\* The server's current date and the days around it.
Today == DateStr(2024, 6, 15)

Tomorrow == DateStr(2024, 6, 16)

\* SPECIFICATION.md, data model: the earliest date allowed.
MinDate == DateStr(2000, 1, 1)

LongText == [i \in 1..(DescMax + 1) |-> "x"]

\* A candidate all of whose fields are acceptable.
BaseCandidate ==
  [description |-> Str(<<"L", "u", "n", "c", "h">>),
   amount |-> Num(15500),
   category |-> Str(<<"Groceries">>),
   date |-> Str(Today)]

\* A candidate with no field (the body {}).
EmptyCandidate ==
  [description |-> Undefined, amount |-> Undefined,
   category |-> Undefined, date |-> Undefined]

DescriptionValues ==
  {Undefined, Num(5000), Str(<<>>), Str(<<" ", " ">>),
   Str(<<" ", "T", "e", "a", " ">>), Str(LongText)}

AmountValues ==
  {Undefined, Null, Num(0 - 10), Num(0), Num(AmountMax), Num(AmountMax + 10),
   Str(<<"a", "b", "c">>), Str(<<"1", "2", "a", "b", "c">>)}

CategoryValues ==
  {Undefined, Null, Str(<<"Transport">>), Str(<<"Snacks">>)}

DateValues ==
  {Undefined, Num(20240615), Str(Tomorrow), Str(DateStr(1999, 12, 31)),
   Str(<<"0", "1", "-", "1", "5", "-", "2", "0", "2", "4">>)}

\* Candidates that differ from c in at most one field.
OneFieldFrom(c) ==
  {c}
    \cup {[c EXCEPT !.description = v] : v \in DescriptionValues}
    \cup {[c EXCEPT !.amount = v] : v \in AmountValues}
    \cup {[c EXCEPT !.category = v] : v \in CategoryValues}
    \cup {[c EXCEPT !.date = v] : v \in DateValues}

\* The bodies a create is called with.
CreateInputs == OneFieldFrom(BaseCandidate)

\* The bodies an update is called with: one field or none, and bodies of two
\* fields of which the second is acceptable or not.
UpdateInputs ==
  OneFieldFrom(EmptyCandidate)
    \cup {[EmptyCandidate EXCEPT !.description = Str(<<"T", "e", "a">>), !.amount = v] :
            v \in {Num(0), Num(0 - 10)}}
    \cup {[EmptyCandidate EXCEPT !.category = Str(<<"Transport">>), !.date = v] :
            v \in {Str(MinDate), Str(<<"2", "0", "2", "4", "-", "6", "-", "1", "5">>)}}

\* The ids a call is made with: every id given so far and one never given.
IdInputs == 1..(seq + 1)

\* ---------------------------------------------------------- operations
NoCall ==
  [op |-> "none", id |-> 0, arg |-> EmptyCandidate, outcome |-> "none",
   error |-> "none", result |-> NoRow, http |-> 0, at |-> 0]

\* No list request has been answered since the last other call.
NoAnswer ==
  [op |-> "none", category |-> Undefined, startDate |-> Undefined,
   endDate |-> Undefined, date |-> <<>>, year |-> <<>>, month |-> <<>>,
   result |-> <<>>]

\* The browser's clock: new Date() read as a UTC date (toISOString) and as
\* a local year and month (getFullYear, getMonth() + 1).
BrowserToday == Today

CurrentYear == DigitsValue(Today, 1, 5)

CurrentMonth == DigitsValue(Today, 6, 8)

\* state.filters as the page starts and as clearFilters and setView leave it.
NoFilters == [category |-> <<>>, startDate |-> <<>>, endDate |-> <<>>]

\* The request loadExpenses sends: the filters when any is set, else the
\* day of the daily view, else the month of the monthly view.
LoadRequest(f, view, date, year, month) ==
  IF f.category # <<>> \/ f.startDate # <<>> \/ f.endDate # <<>>
    THEN [api |-> "getAll", filters |-> f, date |-> <<>>, year |-> 0, month |-> 0]
  ELSE IF view = "daily"
    THEN [api |-> "getDaily", filters |-> NoFilters, date |-> date,
          year |-> 0, month |-> 0]
  ELSE [api |-> "getMonthly", filters |-> NoFilters, date |-> <<>>,
        year |-> year, month |-> month]

NoFetchCall ==
  [state |-> "idle", cause |-> "none", result |-> "", error |-> "",
   onLine |-> TRUE, elapsed |-> 0, settledAt |-> 0, abortsAfterSettle |-> 0]

\* The page once init() has returned, in a browser zone hours east of UTC.
InitPage(zone) ==
  /\ fetchCall = NoFetchCall
  /\ timeoutId = "none"
  /\ online = TRUE
  /\ snackbar = [hidden |-> TRUE, message |-> "", age |-> 0, hiddenBy |-> "none"]
  /\ snackbarTimeout = 0
  /\ timers = <<>>
  /\ selectedDate = BrowserToday
  /\ selectedYear = CurrentYear
  /\ selectedMonth = CurrentMonth
  /\ nextDayBtn = [disabled |-> TRUE]
  /\ nextMonthBtn = [disabled |-> TRUE]
  /\ tz = zone
  /\ currentView = "daily"
  /\ stateFilters = NoFilters
  /\ isLoading = FALSE
  /\ expenses = LoadRequest(NoFilters, "daily", BrowserToday, CurrentYear, CurrentMonth)
  /\ loads = <<>>
  /\ saveBtn = [disabled |-> FALSE, textContent |-> "Save"]
  /\ submits = <<>>
  /\ lastNav = [op |-> "none", from |-> <<>>, prevOp |-> "none", prevFrom |-> <<>>]

Init ==
  /\ rows = <<>>
  /\ seq = 0
  /\ now = 0
  /\ ops = 0
  /\ last = NoCall
  /\ prev = <<>>
  /\ removed = {}
  /\ answer = NoAnswer
  /\ conns = <<>>
  /\ InitPage(0)

\* ExpenseModel.create(e), called by POST /api/expenses.
Create(e) ==
  /\ ops < MaxOps
  /\ ops' = ops + 1
  /\ prev' = rows
  /\ UNCHANGED <<now, removed>>
  /\ answer' = NoAnswer
  /\ LET outcome == CreateOutcome(e)
     IN IF outcome = "throw"
        THEN /\ UNCHANGED <<rows, seq>>
             /\ last' = [op |-> "create", id |-> 0, arg |-> e, outcome |-> outcome,
                         error |-> CreateError(e), result |-> NoRow,
                         http |-> PostStatus(outcome), at |-> now]
        ELSE LET id == NextRowid(rows, seq)
                 t == (id :> InsertedRow(id, e, now)) @@ rows
             IN /\ rows' = t
                /\ seq' = id
                /\ last' = [op |-> "create", id |-> id, arg |-> e, outcome |-> outcome,
                            error |-> "none", result |-> getById(t, id),
                            http |-> PostStatus(outcome), at |-> now]

\* ExpenseModel.update(id, e), called by PUT /api/expenses/:id.
Update(id, e) ==
  /\ ops < MaxOps
  /\ ops' = ops + 1
  /\ prev' = rows
  /\ UNCHANGED <<seq, now, removed>>
  /\ answer' = NoAnswer
  /\ LET existing == getById(rows, id)
         outcome == UpdateOutcome(existing, e)
     IN IF outcome = "ok"
        THEN LET t == [rows EXCEPT ![id] = UpdatedRow(existing[1], e, now)]
             IN /\ rows' = t
                /\ last' = [op |-> "update", id |-> id, arg |-> e, outcome |-> outcome,
                            error |-> "none", result |-> getById(t, id),
                            http |-> PutStatus(outcome), at |-> now]
        ELSE /\ UNCHANGED rows
             /\ last' = [op |-> "update", id |-> id, arg |-> e, outcome |-> outcome,
                         error |-> IF outcome = "throw" THEN UpdateError(e) ELSE "none",
                         result |-> NoRow, http |-> PutStatus(outcome), at |-> now]

\* ExpenseModel.delete(id), called by DELETE /api/expenses/:id.
Delete(id) ==
  /\ ops < MaxOps
  /\ ops' = ops + 1
  /\ prev' = rows
  /\ UNCHANGED <<seq, now>>
  /\ answer' = NoAnswer
  /\ LET outcome == DeleteOutcome(getById(rows, id))
     IN /\ IF outcome = "true"
           THEN /\ rows' = DeletedFrom(rows, id)
                /\ removed' = removed \cup {id}
           ELSE UNCHANGED <<rows, removed>>
        /\ last' = [op |-> "delete", id |-> id, arg |-> EmptyCandidate,
                    outcome |-> outcome, error |-> "none", result |-> NoRow,
                    http |-> DeleteStatus(outcome), at |-> now]

\* ExpenseModel.getById(id), called by GET /api/expenses/:id.
GetById(id) ==
  /\ ops < MaxOps
  /\ ops' = ops + 1
  /\ prev' = rows
  /\ UNCHANGED <<rows, seq, now, removed>>
  /\ answer' = NoAnswer
  /\ LET r == getById(rows, id)
         outcome == IF r = NoRow THEN "undefined" ELSE "row"
     IN last' = [op |-> "getById", id |-> id, arg |-> EmptyCandidate,
                 outcome |-> outcome, error |-> "none", result |-> r,
                 http |-> GetStatus(outcome), at |-> now]

\* A second passes on the store's clock.
Tick ==
  /\ ops < MaxOps
  /\ ops' = ops + 1
  /\ now' = now + 1
  /\ UNCHANGED <<rows, seq, last, prev, removed>>
  /\ answer' = NoAnswer

\* The model's methods called one after another, no request in flight.
Next ==
  \/ \E e \in CreateInputs : Create(e) /\ UNCHANGED <<conns, pageVars>>
  \/ \E id \in IdInputs, e \in UpdateInputs : Update(id, e) /\ UNCHANGED <<conns, pageVars>>
  \/ \E id \in IdInputs : Delete(id) /\ UNCHANGED <<conns, pageVars>>
  \/ \E id \in IdInputs : GetById(id) /\ UNCHANGED <<conns, pageVars>>
  \/ Tick /\ UNCHANGED <<conns, pageVars>>

Spec == Init /\ [][Next]_vars

\* ------------------------------------------------- the table's constraints
\* The literals of the CHECK constraint on the category column.
CHECK_CATEGORIES ==
  { <<"Groceries">>, <<"Transport">>, <<"Housing and Utilities">>,
    <<"Restaurants and Cafes">>, <<"Health and Medicine">>,
    <<"Clothing & Footwear">>, <<"Entertainment">> }

\* CREATE TABLE expenses: what the table accepts in a row. NOT NULL holds of
\* every column of a row of the model; the CHECK is on the category.
TableConstraint(r) == r.category \in CHECK_CATEGORIES

\* The table's constraints reject no row that create or update writes: the
\* write path of the model is the validation of ExpenseModel alone, and the
\* store never answers it with a constraint error.
ConstraintNeverFires == \A i \in DOMAIN rows : TableConstraint(rows[i])

\* ------------------------------------------------- the data model's rules
\* The code point of a character of a date text.
CharCode(c) == IF c = "-" THEN 45 ELSE 48 + DigitVal(c)

\* a < b in the order of the characters' codes (memcmp, then the shorter
\* text first).
RECURSIVE TextLess(_, _)
TextLess(a, b) ==
  IF b = <<>> THEN FALSE
  ELSE IF a = <<>> THEN TRUE
  ELSE IF Head(a) # Head(b) THEN CharCode(Head(a)) < CharCode(Head(b))
  ELSE TextLess(Tail(a), Tail(b))

TextLeq(a, b) == a = b \/ TextLess(a, b)

\* The constraints of the data model on each field of a candidate.
DescriptionAllowed(v) ==
  IsString(v) /\ Trim(v.s) # <<>> /\ Len(Trim(v.s)) <= DescMax

AmountAllowed(v) == v.k = "number" /\ 0 <= v.n /\ v.n <= AmountMax

CategoryAllowed(v) == IsString(v) /\ v.s \in CHECK_CATEGORIES

DateAllowed(v) ==
  MatchesDateFormat(v) /\ TextLeq(MinDate, v.s) /\ TextLeq(v.s, Today)

\* A candidate whose four fields are present and satisfy the data model.
CandidateAllowed(e) ==
  /\ DescriptionAllowed(e.description)
  /\ AmountAllowed(e.amount)
  /\ CategoryAllowed(e.category)
  /\ DateAllowed(e.date)

\* A partial candidate each of whose present fields satisfies the data model.
PartialAllowed(e) ==
  /\ e.description.k = "undefined" \/ DescriptionAllowed(e.description)
  /\ e.amount.k = "undefined" \/ AmountAllowed(e.amount)
  /\ e.category.k = "undefined" \/ CategoryAllowed(e.category)
  /\ e.date.k = "undefined" \/ DateAllowed(e.date)

\* Every row of the table before the last call is in the table as it was.
OthersKept(except) ==
  \A i \in DOMAIN prev \ except : i \in DOMAIN rows /\ rows[i] = prev[i]

\* Calendar dates of the data model: the numbers a well-formed date text
\* stands for, leap years and the length of each month.
TextNumber(s) == DigitsValue(s, 1, Len(s) + 1)

DateYear(d) == DigitsValue(d, 1, 5)

DateMonth(d) == DigitsValue(d, 6, 8)

DateDay(d) == DigitsValue(d, 9, 11)

DateNumber(d) == DateYear(d) * 10000 + DateMonth(d) * 100 + DateDay(d)

IsLeapYear(y) == (y % 4 = 0 /\ y % 100 # 0) \/ y % 400 = 0

DaysInMonth(y, m) ==
  IF m = 2 THEN (IF IsLeapYear(y) THEN 29 ELSE 28)
  ELSE IF m \in {4, 6, 9, 11} THEN 30
  ELSE 31

\* The date text d is a day of the calendar month m of year y.
InCalendarMonth(d, y, m) ==
  /\ DateYear(d) = y
  /\ DateMonth(d) = m
  /\ 1 <= DateDay(d)
  /\ DateDay(d) <= DaysInMonth(y, m)

\* A criterion of a list request is given when it is a non-empty text.
Given(v) == IsString(v) /\ v.s # <<>>

\* The elements of a list, and a list without repeated elements.
Range(l) == {l[i] : i \in DOMAIN l}

NoRepeats(l) == Cardinality(Range(l)) = Len(l)

\* ---------------------------------------------------------- list queries
\* Mutation: same-date rows in ascending id order.
DateIdBeforeTieAscending(r, q) ==
  TextLess(q.date, r.date) \/ (q.date = r.date /\ r.id < q.id)

\* ORDER BY date DESC, id DESC: row r comes before row q.
DateIdBefore(r, q) ==
  TextLess(q.date, r.date) \/ (q.date = r.date /\ q.id < r.id)

\* ORDER BY id DESC: row r comes before row q.
IdBefore(r, q) == q.id < r.id

\* The rows of the set S in the order ORDER BY date DESC, id DESC.
RECURSIVE OrderByDateIdDesc(_)
OrderByDateIdDesc(S) ==
  IF S = {} THEN <<>>
  ELSE LET first == CHOOSE r \in S : \A q \in S \ {r} : DateIdBefore(r, q)
       IN <<first>> \o OrderByDateIdDesc(S \ {first})

\* The rows of the set S in the order ORDER BY id DESC.
RECURSIVE OrderByIdDesc(_)
OrderByIdDesc(S) ==
  IF S = {} THEN <<>>
  ELSE LET first == CHOOSE r \in S : \A q \in S \ {r} : IdBefore(r, q)
       IN <<first>> \o OrderByIdDesc(S \ {first})

\* Mutation: the end date itself is left out of the range.
GetAllWhereEndExclusive(r, filters) ==
  /\ Truthy(filters.category) => r.category = filters.category.s
  /\ Truthy(filters.startDate) => TextLeq(filters.startDate.s, r.date)
  /\ Truthy(filters.endDate) => TextLess(r.date, filters.endDate.s)

\* Mutation: the category filter adds no condition.
GetAllWhereNoCategory(r, filters) ==
  /\ Truthy(filters.startDate) => TextLeq(filters.startDate.s, r.date)
  /\ Truthy(filters.endDate) => TextLeq(r.date, filters.endDate.s)

\* ExpenseModel.getAll: the WHERE clause built from the filters. A filter
\* that is falsy (absent, or the empty string) adds no condition.
GetAllWhere(r, filters) ==
  /\ Truthy(filters.category) => r.category = filters.category.s
  /\ Truthy(filters.startDate) => TextLeq(filters.startDate.s, r.date)
  /\ Truthy(filters.endDate) => TextLeq(r.date, filters.endDate.s)

\* ExpenseModel.getAll(filters)
getAll(t, filters) ==
  OrderByDateIdDesc({r \in Range(t) : GetAllWhere(r, filters)})

\* ExpenseModel.getDailyExpenses: WHERE date = ?
DailyWhere(r, date) == r.date = date

\* ExpenseModel.getDailyExpenses(date)
getDailyExpenses(t, date) ==
  OrderByIdDesc({r \in Range(t) : DailyWhere(r, date)})

\* ExpenseModel.getMonthlyExpenses: the bounds `${year}-${month padded}-01`
\* and `${year}-${month padded}-31`, year and month given as their texts.
MonthStart(year, month) == year \o <<"-">> \o PadStart2(month) \o <<"-", "0", "1">>

MonthEnd(year, month) == year \o <<"-">> \o PadStart2(month) \o <<"-", "3", "1">>

\* WHERE date >= ? AND date <= ?
MonthlyWhere(r, year, month) ==
  TextLeq(MonthStart(year, month), r.date) /\ TextLeq(r.date, MonthEnd(year, month))

\* ExpenseModel.getMonthlyExpenses(year, month)
getMonthlyExpenses(t, year, month) ==
  OrderByDateIdDesc({r \in Range(t) : MonthlyWhere(r, year, month)})

\* Mutation: the categories of the rows in the table, in the declared order.
getCategoriesInUse ==
  SelectSeq(VALID_CATEGORIES, LAMBDA c : \E i \in DOMAIN rows : rows[i].category = c)

\* ExpenseModel.getCategories()
getCategories == VALID_CATEGORIES

\* handleApiRequest, GET /api/expenses: the filters taken from the query.
RouteFilters(q) ==
  [category |-> IF Truthy(q.category) THEN q.category ELSE Undefined,
   startDate |-> IF Truthy(q.startDate) THEN q.startDate ELSE Undefined,
   endDate |-> IF Truthy(q.endDate) THEN q.endDate ELSE Undefined]

\* The dates and categories of the records the list queries are asked about.
QueryDates ==
  {DateStr(2024, 1, 20), DateStr(2024, 2, 29), DateStr(2024, 2, 30),
   DateStr(2024, 3, 1)}

QueryCreateInputs ==
  {[BaseCandidate EXCEPT !.date = Str(d)] : d \in QueryDates}
    \cup {[BaseCandidate EXCEPT !.category = Str(<<"Transport">>),
                                !.date = Str(DateStr(2024, 1, 20))]}

QueryUpdateInputs ==
  {[EmptyCandidate EXCEPT !.category = Str(<<"Transport">>)],
   [EmptyCandidate EXCEPT !.date = Str(DateStr(2024, 3, 1))]}

\* The query strings of GET /api/expenses.
QueryInputs ==
  [category : {Undefined, Str(<<>>), Str(<<"Groceries">>), Str(<<"Transport">>)},
   startDate : {Undefined, Str(<<>>), Str(DateStr(2024, 1, 20)), Str(DateStr(2024, 2, 29))},
   endDate : {Undefined, Str(DateStr(2024, 1, 20)), Str(DateStr(2024, 2, 29))}]

\* The query strings sent with a daily or monthly request.
CategoryQueryInputs ==
  [category : {Undefined, Str(<<"Transport">>)}, startDate : {Undefined},
   endDate : {Undefined}]

DayInputs == {DateStr(2024, 1, 20), DateStr(2024, 2, 29)}

YearInputs == {ToDigits(2024)}

MonthInputs == {ToDigits(1), ToDigits(2), PadStart2(ToDigits(2)), ToDigits(3)}

\* GET /api/expenses?category=&startDate=&endDate=
GetAll(q) ==
  /\ ops < MaxOps
  /\ answer' = [op |-> "getAll", category |-> q.category,
                startDate |-> q.startDate, endDate |-> q.endDate,
                date |-> <<>>, year |-> <<>>, month |-> <<>>,
                result |-> getAll(rows, RouteFilters(q))]
  /\ ops' = ops + 1
  /\ UNCHANGED <<rows, seq, now, last, prev, removed>>

\* GET /api/expenses/daily/:date (its query string is not read)
GetDailyExpenses(date, q) ==
  /\ ops < MaxOps
  /\ answer' = [op |-> "daily", category |-> q.category,
                startDate |-> q.startDate, endDate |-> q.endDate,
                date |-> date, year |-> <<>>, month |-> <<>>,
                result |-> getDailyExpenses(rows, date)]
  /\ ops' = ops + 1
  /\ UNCHANGED <<rows, seq, now, last, prev, removed>>

\* GET /api/expenses/monthly/:year/:month (its query string is not read)
GetMonthlyExpenses(year, month, q) ==
  /\ ops < MaxOps
  /\ answer' = [op |-> "monthly", category |-> q.category,
                startDate |-> q.startDate, endDate |-> q.endDate,
                date |-> <<>>, year |-> year, month |-> month,
                result |-> getMonthlyExpenses(rows, year, month)]
  /\ ops' = ops + 1
  /\ UNCHANGED <<rows, seq, now, last, prev, removed>>

\* GET /api/categories
GetCategories ==
  /\ ops < MaxOps
  /\ answer' = [op |-> "categories", category |-> Undefined,
                startDate |-> Undefined, endDate |-> Undefined,
                date |-> <<>>, year |-> <<>>, month |-> <<>>,
                result |-> getCategories]
  /\ ops' = ops + 1
  /\ UNCHANGED <<rows, seq, now, last, prev, removed>>

NextQuery ==
  \/ \E e \in QueryCreateInputs : Create(e) /\ UNCHANGED <<conns, pageVars>>
  \/ \E id \in IdInputs, e \in QueryUpdateInputs : Update(id, e) /\ UNCHANGED <<conns, pageVars>>
  \/ \E id \in IdInputs : Delete(id) /\ UNCHANGED <<conns, pageVars>>
  \/ \E q \in QueryInputs : GetAll(q) /\ UNCHANGED <<conns, pageVars>>
  \/ \E date \in DayInputs, q \in CategoryQueryInputs :
       GetDailyExpenses(date, q) /\ UNCHANGED <<conns, pageVars>>
  \/ \E year \in YearInputs, month \in MonthInputs, q \in CategoryQueryInputs :
       GetMonthlyExpenses(year, month, q) /\ UNCHANGED <<conns, pageVars>>
  \/ GetCategories /\ UNCHANGED <<conns, pageVars>>

\* The store under creates, updates and deletes, asked by the list requests.
SpecQuery == Init /\ [][NextQuery]_vars

\* ------------------------------------------------ the HTTP request handler
\* handleApiRequest: the branch a request takes, tested in the order of the
\* code. A path is given by its shape: "expenses" (/api/expenses), "id"
\* (/api/expenses/<digits>), "categories" (/api/categories), and "other"
\* for any other path under /api/.
RouteOf(method, path) ==
  IF path = "expenses" /\ method = "GET" THEN "getAll"
  ELSE IF path = "id" /\ method = "GET" THEN "getById"
  ELSE IF path = "expenses" /\ method = "POST" THEN "create"
  ELSE IF path = "id" /\ method = "PUT" THEN "update"
  ELSE IF path = "id" /\ method = "DELETE" THEN "delete"
  ELSE IF path = "categories" /\ method = "GET" THEN "getCategories"
  ELSE "notFound"

\* sendError(res, 404, 'API endpoint not found')
NotFoundStatus == 404

\* Mutation: a failure caught by the handler is answered as a server error
\* with a fixed text.
CaughtResponseOpaque(message) == [status |-> 500, error |-> "Server error"]

\* catch (error) { sendError(res, 400, error.message) }
CaughtResponse(message) == [status |-> 400, error |-> message]

\* The texts of the errors the handler can catch.
InvalidJsonMessage == "Invalid JSON"

StoreErrorMessage == "SqliteError: database or disk is full"

\* A request as received: nothing has been sent for it yet. pending holds
\* the requests that were still being read when this one was handled.
NewConn(method, path, id, body) ==
  [method |-> method, path |-> path, id |-> id, body |-> body,
   phase |-> "reading", outcome |-> "none", sent |-> <<>>, error |-> "",
   at |-> 0, pending |-> {}]

\* The requests whose body is still being read, other than request i.
Reading(i) == {j \in DOMAIN conns : j # i /\ conns[j].phase = "reading"}

\* The request after the handler has sent status with the error text.
Handled(c, i, outcome, status, error, at) ==
  [c EXCEPT !.phase = "handled", !.outcome = outcome, !.sent = Append(c.sent, status),
            !.error = error, !.at = at, !.pending = Reading(i)]

\* A POST or PUT arrives: the handler awaits parseBody and returns to the
\* event loop, where other requests are taken up.
Receive(method, path, id, body) ==
  /\ Len(conns) < MaxConns
  /\ RouteOf(method, path) \in {"create", "update"}
  /\ conns' = Append(conns, NewConn(method, path, id, body))
  /\ UNCHANGED storeVars

\* The body of request i has arrived whole: the handler goes on, calls the
\* model and sends the response, all in one turn of the event loop.
BodyEnd(i) ==
  /\ i \in DOMAIN conns
  /\ conns[i].phase = "reading"
  /\ IF RouteOf(conns[i].method, conns[i].path) = "create"
     THEN Create(conns[i].body)
     ELSE Update(conns[i].id, conns[i].body)
  /\ conns' = [conns EXCEPT ![i] =
                 Handled(conns[i], i, last'.outcome, last'.http,
                         IF last'.outcome = "throw" THEN last'.error ELSE "", ops')]

\* The body of request i is not JSON: parseBody rejects and the handler's
\* catch answers.
BodyInvalid(i) ==
  /\ i \in DOMAIN conns
  /\ conns[i].phase = "reading"
  /\ LET r == CaughtResponse(InvalidJsonMessage)
     IN conns' = [conns EXCEPT ![i] =
                    Handled(conns[i], i, "badJson", r.status, r.error, ops)]
  /\ UNCHANGED storeVars

\* A request with no body to wait for is handled as it arrives.
Serve(method, path, id) ==
  /\ Len(conns) < MaxConns
  /\ LET route == RouteOf(method, path)
         i == Len(conns) + 1
         c == NewConn(method, path, id, EmptyCandidate)
     IN /\ route \notin {"create", "update"}
        /\ IF route = "getById" THEN GetById(id)
           ELSE IF route = "delete" THEN Delete(id)
           ELSE IF route = "getAll"
             THEN GetAll([category |-> Undefined, startDate |-> Undefined,
                          endDate |-> Undefined])
           ELSE IF route = "getCategories" THEN GetCategories
           ELSE UNCHANGED storeVars
        /\ conns' = Append(conns,
             IF route \in {"getById", "delete"}
               THEN Handled(c, i, last'.outcome, last'.http, "", ops')
             ELSE IF route \in {"getAll", "getCategories"}
               THEN Handled(c, i, "list", 200, "", ops')
             ELSE Handled(c, i, "notFound", NotFoundStatus, "API endpoint not found", ops))

\* The store fails under a call of the model (the disk is full, the file is
\* locked): better-sqlite3 throws, the statement changes nothing, and the
\* handler's catch answers. For a request with a body this happens once the
\* body is read and, for a create, once the checks have passed.
StoreFailsAfterBody(i) ==
  /\ i \in DOMAIN conns
  /\ conns[i].phase = "reading"
  /\ RouteOf(conns[i].method, conns[i].path) = "create"
       => CreateOutcome(conns[i].body) = "ok"
  /\ LET r == CaughtResponse(StoreErrorMessage)
     IN conns' = [conns EXCEPT ![i] =
                    Handled(conns[i], i, "storeError", r.status, r.error, ops)]
  /\ UNCHANGED storeVars

StoreFails(method, path, id) ==
  /\ Len(conns) < MaxConns
  /\ RouteOf(method, path) \in {"getAll", "getById", "delete"}
  /\ LET r == CaughtResponse(StoreErrorMessage)
     IN conns' = Append(conns,
          Handled(NewConn(method, path, id, EmptyCandidate), Len(conns) + 1,
                  "storeError", r.status, r.error, ops))
  /\ UNCHANGED storeVars

\* The requests the server is sent: each route, and requests that match no
\* route by their path or by their method. The ids are one that the first
\* create gives and one more.
ApiIds == {id \in IdInputs : id <= 2}

IdsOf(path) == IF path = "id" THEN ApiIds ELSE {0}

BodyRequests == {<<"POST", "expenses">>, <<"PUT", "id">>}

BodilessRequests ==
  {<<"GET", "expenses">>, <<"GET", "id">>, <<"DELETE", "id">>,
   <<"GET", "categories">>, <<"GET", "other">>, <<"POST", "id">>}

ApiPostBodies == {BaseCandidate, [BaseCandidate EXCEPT !.amount = Num(0 - 10)]}

ApiPutBodies ==
  {[EmptyCandidate EXCEPT !.description = Str(<<"T", "e", "a">>)],
   [EmptyCandidate EXCEPT !.description = Str(<<"P", "i", "e">>)],
   [EmptyCandidate EXCEPT !.amount = Num(0)],
   [EmptyCandidate EXCEPT !.category = Str(<<"Snacks">>)]}

BodiesOf(method) == IF method = "POST" THEN ApiPostBodies ELSE ApiPutBodies

NextApi ==
  \/ \E r \in BodyRequests : \E id \in IdsOf(r[2]), body \in BodiesOf(r[1]) :
       Receive(r[1], r[2], id, body) /\ UNCHANGED pageVars
  \/ \E i \in DOMAIN conns : BodyEnd(i) /\ UNCHANGED pageVars
  \/ \E i \in DOMAIN conns : BodyInvalid(i) /\ UNCHANGED pageVars
  \/ \E r \in BodilessRequests : \E id \in IdsOf(r[2]) :
       Serve(r[1], r[2], id) /\ UNCHANGED pageVars
  \/ \E i \in DOMAIN conns : StoreFailsAfterBody(i) /\ UNCHANGED pageVars
  \/ \E r \in BodilessRequests : \E id \in IdsOf(r[2]) :
       StoreFails(r[1], r[2], id) /\ UNCHANGED pageVars

\* The server starts on the database file it finds: CREATE TABLE IF NOT
\* EXISTS leaves the expenses of earlier runs in place. Here the file is new
\* or holds one expense.
InitApi ==
  /\ \/ rows = <<>> /\ seq = 0
     \/ rows = (1 :> InsertedRow(1, BaseCandidate, 0)) /\ seq = 1
  /\ now = 0
  /\ ops = 0
  /\ last = NoCall
  /\ prev = <<>>
  /\ removed = {}
  /\ answer = NoAnswer
  /\ conns = <<>>
  /\ InitPage(0)

\* The server under requests that overlap while their bodies are read.
SpecApi == InitApi /\ [][NextApi]_vars

\* ------------------------------------------------- fetchWithTimeout
\* public/js/app.js, the API client.  Time is counted in seconds.
\* API_TIMEOUT = 10000 ms.
API_TIMEOUT == 10

\* The seconds a call is followed for after it was made.
MaxWait == 12

OfflineMessage == "You appear to be offline. Please check your connection."

TimeoutMessage == "Request timed out. Please try again."

\* What fetch rejects with when the network fails.
FetchErrors == {"Failed to fetch"}

\* clearTimeout(timeoutId) left out of the finally block.
ClearTimeoutLeftOut(timer) == timer

\* clearTimeout(timeoutId): a timer that has not fired never will.
ClearTimeout(timer) == IF timer = "armed" THEN "cleared" ELSE timer

\* The catch block: the message the call rejects with for the error the
\* fetch threw, isOnline() being read at that moment.
CaughtMessage(name, message, isOnline) ==
  IF name = "AbortError" THEN TimeoutMessage
  ELSE IF ~isOnline THEN OfflineMessage
  ELSE message

SettledFetch(cause, result, error, isOnline) ==
  [fetchCall EXCEPT !.state = IF cause = "response" THEN "fulfilled" ELSE "rejected",
                    !.cause = cause, !.result = result, !.error = error,
                    !.onLine = isOnline, !.settledAt = fetchCall.elapsed]

exceptFetch == <<storeVars, conns, snackVars, navVars, loadVars, formVars, lastNav>>

\* fetchWithTimeout(url, options) is called: offline it throws at once,
\* online it starts the abort timer and the fetch.
FetchWithTimeout ==
  /\ fetchCall.state # "pending"
  /\ IF ~online
       THEN /\ fetchCall' = [NoFetchCall EXCEPT !.state = "rejected",
                               !.cause = "offline", !.result = OfflineMessage,
                               !.onLine = FALSE]
            /\ timeoutId' = "none"
       ELSE /\ fetchCall' = [NoFetchCall EXCEPT !.state = "pending"]
            /\ timeoutId' = "armed"
  /\ UNCHANGED <<online, exceptFetch>>

\* The fetch fulfils: return response, then the finally block.
FetchFulfils ==
  /\ fetchCall.state = "pending"
  /\ fetchCall' = SettledFetch("response", "response", "", online)
  /\ timeoutId' = ClearTimeout(timeoutId)
  /\ UNCHANGED <<online, exceptFetch>>

\* The fetch rejects with a network error: the catch block, then finally.
FetchRejects(message) ==
  /\ fetchCall.state = "pending"
  /\ fetchCall' = SettledFetch("fetchError",
                     CaughtMessage("TypeError", message, online), message, online)
  /\ timeoutId' = ClearTimeout(timeoutId)
  /\ UNCHANGED <<online, exceptFetch>>

\* The abort timer is due and runs controller.abort(): a fetch still
\* pending rejects with an AbortError, which the catch block rewrites.
AbortTimerFires ==
  /\ timeoutId = "armed"
  /\ fetchCall.elapsed >= API_TIMEOUT
  /\ IF fetchCall.state = "pending"
       THEN fetchCall' = SettledFetch("abort",
                            CaughtMessage("AbortError", "The operation was aborted.", online),
                            "The operation was aborted.", online)
       ELSE fetchCall' = [fetchCall EXCEPT !.abortsAfterSettle = @ + 1]
  /\ timeoutId' = ClearTimeout("fired")
  /\ UNCHANGED <<online, exceptFetch>>

\* A second passes; a timer that is due runs before the next one does.
FetchSecondPasses ==
  /\ fetchCall.state # "idle"
  /\ fetchCall.elapsed < MaxWait
  /\ ~(timeoutId = "armed" /\ fetchCall.elapsed >= API_TIMEOUT)
  /\ fetchCall' = [fetchCall EXCEPT !.elapsed = @ + 1]
  /\ UNCHANGED <<timeoutId, online, exceptFetch>>

\* The browser loses or regains its connection (navigator.onLine).
OnlineChanges ==
  /\ online' = ~online
  /\ UNCHANGED <<fetchCall, timeoutId, exceptFetch>>

NextFetch ==
  \/ FetchWithTimeout
  \/ FetchFulfils
  \/ \E message \in FetchErrors : FetchRejects(message)
  \/ AbortTimerFires
  \/ FetchSecondPasses
  \/ OnlineChanges

\* Calls of fetchWithTimeout one after another; time passes and the event
\* loop runs the timers that are due.
SpecFetch ==
  /\ Init
  /\ [][NextFetch]_vars
  /\ WF_vars(FetchSecondPasses)
  /\ WF_vars(AbortTimerFires)

\* --------------------------------------------------------- the snackbar
\* setTimeout(() => hideSnackbar(), 4000), in seconds.
SNACKBAR_DELAY == 4

\* The showSnackbar calls followed in a run.
MaxShows == 3

SnackbarMessages == {"Expense added successfully", "Error: Failed to create expense"}

\* clearTimeout(id) left out: the timer goes on running.
ClearedTimerKept(ts, id) == ts

\* clearTimeout(id): a pending timer is cancelled; null, a timer that has
\* fired and a cancelled timer are left as they are.
ClearedTimer(ts, id) ==
  IF id \in DOMAIN ts /\ ts[id].state = "pending"
    THEN [ts EXCEPT ![id].state = "cleared"]
    ELSE ts

PendingTimers(ts) == {i \in DOMAIN ts : ts[i].state = "pending"}

\* showSnackbar(message): cancel the timer on record, show the message,
\* start a new timer and record its id.
showSnackbar(message) ==
  /\ timers' = Append(ClearedTimer(timers, snackbarTimeout),
                      [left |-> SNACKBAR_DELAY, state |-> "pending"])
  /\ snackbarTimeout' = Len(timers) + 1
  /\ snackbar' = [hidden |-> FALSE, message |-> message, age |-> 0,
                  hiddenBy |-> "none"]

\* hideSnackbar(), the timers being ts when it is called.
hideSnackbar(ts, by) ==
  /\ timers' = ClearedTimer(ts, snackbarTimeout)
  /\ snackbarTimeout' = 0
  /\ snackbar' = [snackbar EXCEPT !.hidden = TRUE, !.hiddenBy = by]

exceptSnack == <<storeVars, conns, fetchVars, navVars, loadVars, formVars, lastNav>>

\* Some handler of the page reports a message.
ShowSnackbar(message) ==
  /\ Len(timers) < MaxShows
  /\ showSnackbar(message)
  /\ UNCHANGED exceptSnack

\* The close button of the snackbar.
CloseSnackbar ==
  /\ ~snackbar.hidden
  /\ hideSnackbar(timers, "close")
  /\ UNCHANGED exceptSnack

\* A timer that is due runs its callback, hideSnackbar().
SnackbarTimerFires(id) ==
  /\ timers[id].state = "pending"
  /\ timers[id].left = 0
  /\ hideSnackbar([timers EXCEPT ![id].state = "fired"], "timer")
  /\ UNCHANGED exceptSnack

\* A second passes; a timer that is due runs before the next one does.
SnackbarSecondPasses ==
  /\ PendingTimers(timers) # {}
  /\ \A i \in PendingTimers(timers) : timers[i].left > 0
  /\ timers' = [i \in DOMAIN timers |->
                  IF timers[i].state = "pending"
                    THEN [timers[i] EXCEPT !.left = @ - 1]
                    ELSE timers[i]]
  /\ snackbar' = IF snackbar.hidden THEN snackbar
                 ELSE [snackbar EXCEPT !.age = @ + 1]
  /\ UNCHANGED <<snackbarTimeout, exceptSnack>>

NextSnackbar ==
  \/ \E message \in SnackbarMessages : ShowSnackbar(message)
  \/ CloseSnackbar
  \/ \E id \in DOMAIN timers : SnackbarTimerFires(id)
  \/ SnackbarSecondPasses

\* Messages shown one after another, seconds apart or at once.
SpecSnackbar == Init /\ [][NextSnackbar]_vars

\* ------------------------------------------------- dates in the browser
\* Days from 1970-01-01 to the first day of year y.
DaysBeforeYear(y) ==
  365 * (y - 1970)
    + ((y - 1) \div 4 - (y - 1) \div 100 + (y - 1) \div 400)
    - (1969 \div 4 - 1969 \div 100 + 1969 \div 400)

RECURSIVE DaysBeforeMonth(_, _)
DaysBeforeMonth(y, m) ==
  IF m <= 1 THEN 0 ELSE DaysBeforeMonth(y, m - 1) + DaysInMonth(y, m - 1)

\* The day number (days since 1970-01-01) of a date text YYYY-MM-DD.
DayNumber(d) ==
  DaysBeforeYear(DateYear(d)) + DaysBeforeMonth(DateYear(d), DateMonth(d))
    + DateDay(d) - 1

RECURSIVE YearOfDay(_, _)
YearOfDay(n, y) == IF n < DaysBeforeYear(y + 1) THEN y ELSE YearOfDay(n, y + 1)

RECURSIVE MonthOfDay(_, _, _)
MonthOfDay(n, y, m) ==
  IF n < DaysBeforeYear(y) + DaysBeforeMonth(y, m + 1) THEN m
  ELSE MonthOfDay(n, y, m + 1)

\* The date text of day number n.
DateOfDay(n) ==
  LET y == YearOfDay(n, 1970 + n \div 366)
      m == MonthOfDay(n, y, 1)
  IN DateStr(y, m, n - DaysBeforeYear(y) - DaysBeforeMonth(y, m) + 1)

\* new Date(d + 'T00:00:00'): midnight of d in the browser's zone, as hours
\* since the epoch (zone is the hours the zone is east of UTC).
LocalMidnight(d, zone) == 24 * DayNumber(d) - zone

\* date.setDate(date.getDate() + delta): the local day moves, the local
\* time of day stays.
SetDate(instant, zone, delta) ==
  LET localDay == (instant + zone) \div 24
      localHour == (instant + zone) % 24
  IN (localDay + delta) * 24 + localHour - zone

\* date.toISOString().split('T')[0]: the UTC date of an instant.
IsoDate(instant) == DateOfDay(instant \div 24)

\* The new state.selectedDate of goToPreviousDay (delta -1) and
\* goToNextDay (delta 1).
ShiftedDay(d, zone, delta) == IsoDate(SetDate(LocalMidnight(d, zone), zone, delta))

\* updateDailyNavigationButtons: nextDayBtn.disabled = selectedDate >= today.
DailyNextDisabled(d) == TextLeq(BrowserToday, d)

\* updateMonthlyNavigationButtons: isCurrentOrFuture.
MonthlyNextDisabled(year, month) ==
  year > CurrentYear \/ (year = CurrentYear /\ month >= CurrentMonth)

\* ------------------------------------------------------- loadExpenses
\* The loadExpenses calls that may await their response at one time.
MaxLoads == 2

NetworkErrors == {"Failed to fetch expenses"}

\* The part of loadExpenses up to its await, with the state the handler
\* has just written: wasLoading is read, the overlay is shown, the request
\* chosen from filters, view and selection is sent.
loadExpenses(f, view, date, year, month, caller, originalText) ==
  /\ loads' = Append(loads,
                [request |-> LoadRequest(f, view, date, year, month),
                 wasLoading |-> isLoading, caller |-> caller,
                 originalText |-> originalText])
  /\ isLoading' = TRUE

Without(s, i) == SubSeq(s, 1, i - 1) \o SubSeq(s, i + 1, Len(s))

\* The finally blocks that run when call i of loadExpenses returns: its
\* own (hideLoading unless wasLoading) and, when handleFormSubmit awaits
\* it, that handler's (the Save button is enabled, its text restored).
LoadReturns(i) ==
  /\ loads' = Without(loads, i)
  /\ isLoading' = IF loads[i].wasLoading THEN isLoading ELSE FALSE
  /\ saveBtn' = IF loads[i].caller = "handleFormSubmit"
                  THEN [disabled |-> FALSE, textContent |-> loads[i].originalText]
                  ELSE saveBtn

\* The response to call i arrives: state.expenses is set from it.
LoadFulfils(i) ==
  /\ expenses' = loads[i].request
  /\ LoadReturns(i)
  /\ UNCHANGED <<storeVars, conns, fetchVars, snackVars, navVars,
                 currentView, stateFilters, submits, lastNav>>

\* Call i fails: the catch block reports it.
LoadRejects(i, message) ==
  /\ Len(timers) < MaxShows
  /\ showSnackbar("Failed to load expenses: " \o message)
  /\ LoadReturns(i)
  /\ UNCHANGED <<storeVars, conns, fetchVars, navVars,
                 currentView, stateFilters, expenses, submits, lastNav>>

\* --------------------------------------------------- view navigation
\* The days Previous is followed back from a date chosen in the picker.
MaxDaysBack == 3

\* The years Previous month is followed back from the current month.
MaxYearsBack == 1

\* The dates chosen in the date picker (its max is today's date).
PickerDates ==
  {d \in {BrowserToday, DateStr(2024, 3, 1), DateStr(2024, 1, 1)} :
     TextLeq(d, BrowserToday)}

\* populateYearDropdown: the current year and the five before it.
YearOptions == {CurrentYear - k : k \in 0..5}

\* The years chosen in the year dropdown.
YearInputsNav == {y \in YearOptions : y \in {CurrentYear, CurrentYear - 1, CurrentYear - 5}}

\* The browser's zones: hours east of UTC.
ZoneOffsets == {-5, 0, 2}

\* The record of a handled event: for a step of one day the date it
\* started from, and whether the event before was a step back and from where.
Navigated(op) ==
  lastNav' =
    [op |-> op,
     from |-> IF op \in {"goToPreviousDay", "goToNextDay"} THEN selectedDate ELSE <<>>,
     prevOp |-> IF lastNav.op = "goToPreviousDay" THEN lastNav.op ELSE "none",
     prevFrom |-> IF lastNav.op = "goToPreviousDay" THEN lastNav.from ELSE <<>>]

\* A handler of the daily controls: the date is set, the Next button
\* updated and the expenses loaded again.
DailyHandler(op, d) ==
  /\ Len(loads) < MaxLoads
  /\ selectedDate' = d
  /\ nextDayBtn' = [disabled |-> DailyNextDisabled(d)]
  /\ loadExpenses(stateFilters, currentView, d, selectedYear, selectedMonth,
                  op, "")
  /\ Navigated(op)
  /\ UNCHANGED <<storeVars, conns, fetchVars, snackVars, formVars,
                 selectedYear, selectedMonth, nextMonthBtn, tz,
                 currentView, stateFilters, expenses>>

HandleDatePickerChange(d) == DailyHandler("handleDatePickerChange", d)

GoToPreviousDay ==
  /\ \E p \in PickerDates :
       DayNumber(p) - DayNumber(selectedDate) \in 0..(MaxDaysBack - 1)
  /\ DailyHandler("goToPreviousDay", ShiftedDay(selectedDate, tz, -1))

\* The Next button acts only while it is enabled.
GoToNextDay ==
  /\ ~nextDayBtn.disabled
  /\ \E p \in PickerDates :
       DayNumber(selectedDate) - DayNumber(p) \in (0 - MaxDaysBack)..(MaxDaysBack - 1)
  /\ DailyHandler("goToNextDay", ShiftedDay(selectedDate, tz, 1))

GoToToday == DailyHandler("goToToday", BrowserToday)

\* A handler of the monthly controls.
MonthlyHandler(op, year, month) ==
  /\ Len(loads) < MaxLoads
  /\ selectedYear' = year
  /\ selectedMonth' = month
  /\ nextMonthBtn' = [disabled |-> MonthlyNextDisabled(year, month)]
  /\ loadExpenses(stateFilters, currentView, selectedDate, year, month, op, "")
  /\ Navigated(op)
  /\ UNCHANGED <<storeVars, conns, fetchVars, snackVars, formVars,
                 selectedDate, nextDayBtn, tz,
                 currentView, stateFilters, expenses>>

HandleYearChange(year) == MonthlyHandler("handleYearChange", year, selectedMonth)

GoToPreviousMonth ==
  /\ selectedYear * 12 + selectedMonth >
       (CurrentYear - MaxYearsBack) * 12 + CurrentMonth
  /\ IF selectedMonth = 1
       THEN MonthlyHandler("goToPreviousMonth", selectedYear - 1, 12)
       ELSE MonthlyHandler("goToPreviousMonth", selectedYear, selectedMonth - 1)

GoToNextMonth ==
  /\ ~nextMonthBtn.disabled
  /\ selectedYear >= CurrentYear - MaxYearsBack
  /\ IF selectedMonth = 12
       THEN MonthlyHandler("goToNextMonth", selectedYear + 1, 1)
       ELSE MonthlyHandler("goToNextMonth", selectedYear, selectedMonth + 1)

GoToThisMonth == MonthlyHandler("goToThisMonth", CurrentYear, CurrentMonth)

\* No loadExpenses call awaits its response: the user waits for the table.
PageIdle == loads = <<>>

NextNav ==
  \/ \E d \in PickerDates : PageIdle /\ HandleDatePickerChange(d)
  \/ PageIdle /\ GoToPreviousDay
  \/ PageIdle /\ GoToNextDay
  \/ PageIdle /\ GoToToday
  \/ \E year \in YearInputsNav : PageIdle /\ HandleYearChange(year)
  \/ PageIdle /\ GoToPreviousMonth
  \/ PageIdle /\ GoToNextMonth
  \/ PageIdle /\ GoToThisMonth
  \/ \E i \in DOMAIN loads : LoadFulfils(i)

\* The page in a browser of any of the zones.
InitNav ==
  /\ rows = <<>>
  /\ seq = 0
  /\ now = 0
  /\ ops = 0
  /\ last = NoCall
  /\ prev = <<>>
  /\ removed = {}
  /\ answer = NoAnswer
  /\ conns = <<>>
  /\ \E zone \in ZoneOffsets : InitPage(zone)

\* Navigation with the date and month controls, one action at a time.
SpecNav == InitNav /\ [][NextNav]_vars

\* ------------------------------------------------ overlapping loads
\* The filters typed into the filter panel.
FilterInputs ==
  {NoFilters, [category |-> <<"Groceries">>, startDate |-> <<>>, endDate |-> <<>>]}

\* setView(view): the view is switched, the filters are cleared and the
\* expenses loaded again (the call is not awaited).
SetView(view) ==
  /\ Len(loads) < MaxLoads
  /\ currentView' = view
  /\ stateFilters' = NoFilters
  /\ loadExpenses(NoFilters, view, selectedDate, selectedYear, selectedMonth,
                  "setView", "")
  /\ UNCHANGED <<storeVars, conns, fetchVars, snackVars, navVars, formVars,
                 expenses, lastNav>>

\* applyFilters(): the filter inputs are copied into state.filters.
ApplyFilters(f) ==
  /\ Len(loads) < MaxLoads
  /\ stateFilters' = f
  /\ loadExpenses(f, currentView, selectedDate, selectedYear, selectedMonth,
                  "applyFilters", "")
  /\ UNCHANGED <<storeVars, conns, fetchVars, snackVars, navVars, formVars,
                 currentView, expenses, lastNav>>

\* clearFilters().
ClearFilters ==
  /\ Len(loads) < MaxLoads
  /\ stateFilters' = NoFilters
  /\ loadExpenses(NoFilters, currentView, selectedDate, selectedYear,
                  selectedMonth, "clearFilters", "")
  /\ UNCHANGED <<storeVars, conns, fetchVars, snackVars, navVars, formVars,
                 currentView, expenses, lastNav>>

NextLoad ==
  \/ GoToPreviousDay
  \/ GoToNextDay
  \/ GoToToday
  \/ \E view \in {"daily", "monthly"} : SetView(view)
  \/ \E f \in FilterInputs : ApplyFilters(f)
  \/ ClearFilters
  \/ \E i \in DOMAIN loads : LoadFulfils(i)

\* The user acts while earlier loads still await their responses, and the
\* responses arrive in any order.
SpecLoad == Init /\ [][NextLoad]_vars

\* ------------------------------------------------------ the expense form
\* The Save button is the submit button of the expense form: while it is
\* disabled neither a click on it nor Enter in a field submits the form.
CanSubmit == ~saveBtn.disabled

\* saveBtn.textContent = 'Saving...' with saveBtn.disabled = true left out.
SavingButtonLeftEnabled(button) == [button EXCEPT !.textContent = "Saving..."]

\* saveBtn.disabled = true; saveBtn.textContent = 'Saving...'.
SavingButton(button) == [disabled |-> TRUE, textContent |-> "Saving..."]

SavedMessage(kind) ==
  IF kind = "update" THEN "Expense updated successfully"
  ELSE "Expense added successfully"

SaveErrors == {"Description is required"}

\* handleFormSubmit(e) up to its await: originalText is kept, the button
\* changed and the create or update request sent (update when
\* state.editingId is set).
HandleFormSubmit(kind) ==
  /\ CanSubmit
  /\ Len(submits) < MaxLoads
  /\ submits' = Append(submits, [kind |-> kind, originalText |-> saveBtn.textContent])
  /\ saveBtn' = SavingButton(saveBtn)
  /\ UNCHANGED <<storeVars, conns, fetchVars, snackVars, navVars, loadVars, lastNav>>

\* The request of submit i succeeds: the message is shown, the modal closed
\* and loadExpenses awaited; the finally block runs when that returns.
SaveFulfils(i) ==
  /\ Len(timers) < MaxShows
  /\ Len(loads) < MaxLoads
  /\ showSnackbar(SavedMessage(submits[i].kind))
  /\ loadExpenses(stateFilters, currentView, selectedDate, selectedYear,
                  selectedMonth, "handleFormSubmit", submits[i].originalText)
  /\ submits' = Without(submits, i)
  /\ UNCHANGED <<storeVars, conns, fetchVars, navVars, currentView,
                 stateFilters, expenses, saveBtn, lastNav>>

\* The request of submit i fails: the catch block, then the finally block.
SaveRejects(i, message) ==
  /\ Len(timers) < MaxShows
  /\ showSnackbar("Error: " \o message)
  /\ saveBtn' = [disabled |-> FALSE, textContent |-> submits[i].originalText]
  /\ submits' = Without(submits, i)
  /\ UNCHANGED <<storeVars, conns, fetchVars, navVars, loadVars, lastNav>>

NextForm ==
  \/ \E kind \in {"create", "update"} : HandleFormSubmit(kind)
  \/ \E i \in DOMAIN submits : SaveFulfils(i)
  \/ \E i \in DOMAIN submits, message \in SaveErrors : SaveRejects(i, message)
  \/ \E i \in DOMAIN loads : LoadFulfils(i)
  \/ \E i \in DOMAIN loads, message \in NetworkErrors : LoadRejects(i, message)
  \/ CloseSnackbar
  \/ GoToToday

\* Expenses saved from the form while the user closes messages and presses
\* Today.
SpecForm == Init /\ [][NextForm]_vars

C2_CreateInvalidFails ==
  (last.op = "create" /\ ~CandidateAllowed(last.arg)) =>
    (last.outcome = "throw" /\ last.http = 400 /\ rows = prev)

\* C3: a successful update changes exactly the fields present in the partial
\* candidate: getById then returns the new value (the trimmed description,
\* the parsed amount, the category, the date) of each supplied field and the
\* previous value of each field not supplied.
C3_UpdateChangesSuppliedFields ==
  (last.op = "update" /\ last.outcome = "ok") =>
    /\ getById(rows, last.id) # NoRow
    /\ last.result = getById(rows, last.id)
    /\ LET r == getById(rows, last.id)[1]
           old == prev[last.id]
           e == last.arg
       IN /\ r.description = IF e.description.k = "undefined" THEN old.description
                             ELSE Trim(e.description.s)
          /\ r.amount = IF e.amount.k = "undefined" THEN old.amount
                        ELSE ParseFloat(e.amount).n
          /\ r.category = IF e.category.k = "undefined" THEN old.category
                          ELSE e.category.s
          /\ r.date = IF e.date.k = "undefined" THEN old.date ELSE e.date.s

\* An update that supplied a description and nothing else changed it on a
\* record whose amount, 999999.99, is not that of the base candidate, and
\* kept that amount.
C3_Witness ==
  /\ last.op = "update"
  /\ last.outcome = "ok"
  /\ last.arg.amount.k = "undefined"
  /\ last.arg.date.k = "undefined"
  /\ last.arg.category.k = "undefined"
  /\ last.arg.description.k = "string"
  /\ rows[last.id].description # prev[last.id].description
  /\ rows[last.id].amount = AmountMax

\* C4: update on an id that is not in the store reports not-found (null from
\* the model, 404 from the API) whatever the partial candidate holds, and
\* leaves every record unchanged.
C4_UpdateMissingIdNotFound ==
  (last.op = "update" /\ last.id \notin DOMAIN prev) =>
    (last.outcome = "null" /\ last.http = 404 /\ rows = prev)

\* An update with a candidate the validation rejects was made on the id of
\* a record that was deleted before.
C4_Witness ==
  /\ last.op = "update"
  /\ last.id \in removed
  /\ UpdateError(last.arg) # "none"
  /\ last.outcome = "null"

\* C5: if a field present in an update's partial candidate violates the data
\* model, update fails with a validation error and the store is unchanged.
C5_UpdateInvalidFailsWhole ==
  (last.op = "update" /\ last.id \in DOMAIN prev /\ ~PartialAllowed(last.arg)) =>
    (last.outcome = "throw" /\ last.http = 400 /\ rows = prev)

\* C6: an id that a delete removed is not found by getById in any later
\* state, whatever calls follow, and the delete leaves all other records
\* unchanged.
C6_DeletedStaysDeleted ==
  /\ \A id \in removed : getById(rows, id) = NoRow
  /\ (last.op = "delete" /\ last.outcome = "true") =>
       /\ last.http = 204
       /\ DOMAIN rows = DOMAIN prev \ {last.id}
       /\ OthersKept({last.id})

\* A record was created after the only record of the store was deleted.
C6_Witness ==
  /\ removed # {}
  /\ last.op = "create"
  /\ last.outcome = "ok"
  /\ prev = <<>>

\* C7: delete on an id that is not in the store reports not-found (false from
\* the model, 404 from the API) and leaves the store unchanged.
C7_DeleteMissingIdNotFound ==
  (last.op = "delete" /\ last.id \notin DOMAIN prev) =>
    (last.outcome = "false" /\ last.http = 404 /\ rows = prev)

\* A delete was made on an id never given, while the store holds a record.
C7_Witness ==
  /\ last.op = "delete"
  /\ last.id > seq
  /\ last.outcome = "false"
  /\ rows # <<>>

\* C8: in every reachable state the category of every stored record is one
\* of the seven category literals.
C8_CategoryAlwaysValid ==
  \A i \in DOMAIN rows :
    rows[i].category \in
      { <<"Groceries">>, <<"Transport">>, <<"Housing and Utilities">>,
        <<"Restaurants and Cafes">>, <<"Health and Medicine">>,
        <<"Clothing & Footwear">>, <<"Entertainment">> }

\* An update tried to set a category that is not a literal, after the
\* category of a record was changed by an earlier update.
C8_Witness ==
  /\ last.op = "update"
  /\ last.outcome = "throw"
  /\ last.error = "category"
  /\ \E i \in DOMAIN rows : rows[i].category = <<"Transport">>

\* C9: every stored date is not later than the server's current date and not
\* earlier than 2000-01-01.
C9_DateInRange ==
  \A i \in DOMAIN rows :
    TextLeq(MinDate, rows[i].date) /\ TextLeq(rows[i].date, Today)

\* C10: in every reachable state the amount of every stored record is at
\* least 0 and at most 999999.99.
C10_AmountInRange ==
  \A i \in DOMAIN rows : 0 <= rows[i].amount /\ rows[i].amount <= AmountMax

\* C11: in every reachable state the description of every stored record is
\* non-empty and has no white space at either end; create rejects a
\* description that is missing, and create and update reject one that is not
\* a string or is empty after trimming.
C11_DescriptionTrimmedNonEmpty ==
  /\ \A i \in DOMAIN rows :
       LET d == rows[i].description
       IN d # <<>> /\ ~IsSpace(d[1]) /\ ~IsSpace(d[Len(d)])
  /\ LET v == last.arg.description
         called == \/ last.op = "create"
                   \/ last.op = "update" /\ last.id \in DOMAIN prev
         missing == last.op = "create" /\ v.k = "undefined"
         notString == v.k \notin {"undefined", "string"}
         blank == v.k = "string" /\ \A j \in 1..Len(v.s) : IsSpace(v.s[j])
     IN (called /\ (missing \/ notString \/ blank)) =>
          (last.outcome = "throw" /\ last.error = "description" /\ rows = prev)

\* An update with a description of white space only was rejected on a record
\* whose stored description is the trimmed text of a padded input.
C11_Witness ==
  /\ last.op = "update"
  /\ last.arg.description = Str(<<" ", " ">>)
  /\ last.outcome = "throw"
  /\ last.id \in DOMAIN rows
  /\ rows[last.id].description = <<"T", "e", "a">>

\* C12: no stored description is longer than 200 characters (create and
\* update fail when the trimmed description is longer).
C12_DescriptionAtMostMax ==
  \A i \in DOMAIN rows : Len(rows[i].description) <= DescMax

\* C17: every successful update makes updated_at strictly greater than it
\* was before the update.
C17_UpdatedAtStrictlyIncreases ==
  (last.op = "update" /\ last.outcome = "ok") =>
    rows[last.id].updated_at > prev[last.id].updated_at

\* C18: created_at is set when the record is created and no later call
\* changes it while the record exists.
C18_CreatedAtFixed ==
  /\ (last.op = "create" /\ last.outcome = "ok") =>
       rows[last.id].created_at = last.at
  /\ \A i \in DOMAIN rows \cap DOMAIN prev :
       rows[i].created_at = prev[i].created_at

\* A record was updated at a later second than the one it was created in.
C18_Witness ==
  /\ last.op = "update"
  /\ last.outcome = "ok"
  /\ rows[last.id].updated_at > rows[last.id].created_at

\* C19: no two stored records share an id, no call changes the id of a
\* record, and the id a create gives was never given before, also not to a
\* record that was deleted since.
C19_IdsUniqueStableFresh ==
  /\ \A i, j \in DOMAIN rows : rows[i].id = rows[j].id => i = j
  /\ \A i \in DOMAIN rows \cap DOMAIN prev : rows[i].id = prev[i].id
  /\ \A i \in DOMAIN rows : rows[i].id = i /\ i <= seq
  /\ \A i \in removed : i <= seq
  /\ (last.op = "create" /\ last.outcome = "ok") =>
       /\ last.id \notin DOMAIN prev
       /\ last.id \notin removed
       /\ \A i \in DOMAIN prev \cup removed : i < last.id

\* The second record was created after the first one was deleted.
C19_Witness ==
  /\ last.op = "create"
  /\ last.outcome = "ok"
  /\ last.id = 2
  /\ 1 \in removed

\* C13: for every year and month, getMonthlyExpenses(year, month) returns
\* exactly the stored records whose date lies between the first and the
\* last calendar day of that month, whatever the month's length.
C13_MonthlyIsCalendarMonth ==
  answer.op = "monthly" =>
    /\ NoRepeats(answer.result)
    /\ Range(answer.result) =
         {r \in Range(rows) :
            InCalendarMonth(r.date, TextNumber(answer.year), TextNumber(answer.month))}

\* C14: getAll(filters) returns exactly the stored records that satisfy every
\* given criterion (category equal, date on or after startDate, date on or
\* before endDate, dates compared as calendar dates); with no criterion
\* given it returns all stored records.
C14_GetAllExact ==
  answer.op = "getAll" =>
    /\ NoRepeats(answer.result)
    /\ Range(answer.result) =
         {r \in Range(rows) :
            /\ Given(answer.category) => r.category = answer.category.s
            /\ Given(answer.startDate) =>
                 DateNumber(answer.startDate.s) <= DateNumber(r.date)
            /\ Given(answer.endDate) =>
                 DateNumber(r.date) <= DateNumber(answer.endDate.s)}
    /\ (~Given(answer.category) /\ ~Given(answer.startDate) /\ ~Given(answer.endDate))
         => Range(answer.result) = Range(rows)

\* A getAll with all three criteria given that kept a record and left one out.
C14_Witness ==
  /\ answer.op = "getAll"
  /\ Given(answer.category)
  /\ Given(answer.startDate)
  /\ Given(answer.endDate)
  /\ answer.result # <<>>
  /\ Len(answer.result) < Len(rows)

\* C15: every list operation (getAll, getDailyExpenses, getMonthlyExpenses)
\* returns its records by date descending and, for equal dates, by id
\* descending.
C15_ListsOrdered ==
  answer.op \in {"getAll", "daily", "monthly"} =>
    \A i, j \in DOMAIN answer.result :
      i < j =>
        \/ DateNumber(answer.result[i].date) > DateNumber(answer.result[j].date)
        \/ /\ answer.result[i].date = answer.result[j].date
           /\ answer.result[i].id > answer.result[j].id

\* A list that holds two records of the same day.
C15_Witness ==
  /\ answer.op \in {"getAll", "monthly"}
  /\ Len(answer.result) >= 2
  /\ \E i, j \in DOMAIN answer.result :
       i < j /\ answer.result[i].date = answer.result[j].date

\* C16 as stated: a daily or monthly query that also carries a category
\* returns only the records of that day or month whose category matches.
C16_CategoryCombinesWithDayAndMonth ==
  (answer.op \in {"daily", "monthly"} /\ Given(answer.category)) =>
    \A i \in DOMAIN answer.result : answer.result[i].category = answer.category.s

\* C16: a category combines with a date range only. getAll with a category
\* returns exactly the records of that category inside the given range (a
\* day is the range from that day to that day); a daily or monthly query
\* takes no category, and one sent with it is ignored: the daily query
\* returns the records of the day in every category, and the monthly query
\* leaves out no record of the calendar month, whatever its category.
C16_CategoryCombinesWithRangeOnly ==
  /\ (answer.op = "getAll" /\ Given(answer.category)) =>
       \A r \in Range(rows) :
         r \in Range(answer.result) <=>
           /\ r.category = answer.category.s
           /\ Given(answer.startDate) => TextLeq(answer.startDate.s, r.date)
           /\ Given(answer.endDate) => TextLeq(r.date, answer.endDate.s)
  /\ answer.op = "daily" =>
       Range(answer.result) = {r \in Range(rows) : r.date = answer.date}
  /\ answer.op = "monthly" =>
       \A r \in Range(rows) :
         InCalendarMonth(r.date, TextNumber(answer.year), TextNumber(answer.month))
           => r \in Range(answer.result)

\* A daily query sent with a category that returned a record of another
\* category.
C16_Witness ==
  /\ answer.op = "daily"
  /\ Given(answer.category)
  /\ \E i \in DOMAIN answer.result : answer.result[i].category # answer.category.s

\* C20: getCategories returns the same seven literals in the declared order
\* in every state, whatever was created, updated or deleted before, and
\* the list holds exactly the categories the CHECK constraint accepts.
C20_CategoriesFixed ==
  answer.op = "categories" =>
    /\ answer.result =
         << <<"Groceries">>, <<"Transport">>, <<"Housing and Utilities">>,
            <<"Restaurants and Cafes">>, <<"Health and Medicine">>,
            <<"Clothing & Footwear">>, <<"Entertainment">> >>
    /\ Len(answer.result) = 7
    /\ Range(answer.result) = CHECK_CATEGORIES

\* The categories asked for after an expense was created and deleted.
C20_Witness ==
  /\ answer.op = "categories"
  /\ removed # {}
  /\ seq > 0

C22_StoreFailureIsOpaque500 ==
  \A i \in DOMAIN conns :
    conns[i].outcome = "storeError" =>
      /\ conns[i].sent = <<500>>
      /\ conns[i].error # StoreErrorMessage

\* The value a body supplies for a field, as the record holds it.
SuppliedValue(e, f) ==
  IF f = "description" THEN Trim(e.description.s)
  ELSE IF f = "amount" THEN ParseFloat(e.amount).n
  ELSE e[f].s

\* The PUT requests that succeeded on record id and supplied field f.
Writers(id, f) ==
  {i \in DOMAIN conns :
     /\ RouteOf(conns[i].method, conns[i].path) = "update"
     /\ conns[i].outcome = "ok"
     /\ conns[i].id = id
     /\ conns[i].body[f].k # "undefined"}

\* C30: model operations are atomic with respect to requests in flight
\* together. Each field of a record holds the value of the PUT applied last
\* among those that supplied it, in whatever order the bodies arrived: two
\* PUTs on disjoint fields both show in the record, and of two PUTs on the
\* same field the one applied last wins.
C30_PutsDoNotOverwriteEachOther ==
  \A id \in DOMAIN rows :
    \A f \in {"description", "amount", "category", "date"} :
      Writers(id, f) # {} =>
        LET w == CHOOSE i \in Writers(id, f) :
                   \A j \in Writers(id, f) : conns[j].at <= conns[i].at
        IN rows[id][f] = SuppliedValue(conns[w].body, f)

\* Two PUTs on the same record and on disjoint fields, in flight together,
\* the one received second applied first, both applied.
C30_Witness ==
  /\ 1 \in Writers(1, "description") \cup Writers(1, "amount")
  /\ 2 \in Writers(1, "description") \cup Writers(1, "amount")
  /\ Writers(1, "description") \cap Writers(1, "amount") = {}
  /\ Writers(1, "description") # {}
  /\ Writers(1, "amount") # {}
  /\ 1 \in conns[2].pending


\* C23 as stated: every fetchWithTimeout call settles; a fetch still pending
\* 10 seconds after the call is aborted and the call rejects with the
\* time-out message; a fetch that settles earlier settles the call with its
\* own result or its own error, and no abort fires once the call has settled.
C23_SettlesWithFetchResultOrError ==
  /\ fetchCall.state = "pending" =>
       fetchCall.elapsed <= API_TIMEOUT /\ timeoutId = "armed"
  /\ fetchCall.cause = "abort" =>
       fetchCall.state = "rejected" /\ fetchCall.result = TimeoutMessage
  /\ fetchCall.cause = "response" =>
       fetchCall.state = "fulfilled" /\ fetchCall.result = "response"
  /\ fetchCall.cause = "fetchError" =>
       fetchCall.state = "rejected" /\ fetchCall.result = fetchCall.error
  /\ fetchCall.state \in {"fulfilled", "rejected"} =>
       timeoutId # "armed" /\ fetchCall.abortsAfterSettle = 0

\* C23, amended: every call that starts a fetch settles, by the abort at 10
\* seconds with the time-out message or earlier with the fetch's result; a
\* fetch error is passed on only while navigator.onLine is true, otherwise
\* the call rejects with the offline message; a call made offline rejects
\* at once with the offline message and starts no timer; the timer of a
\* settled call is cancelled, so no abort fires after the call has settled.
C23_SettlesOfflineAware ==
  /\ [](fetchCall.state = "pending" =>
          fetchCall.elapsed <= API_TIMEOUT /\ timeoutId = "armed")
  /\ [](fetchCall.cause = "abort" =>
          /\ fetchCall.state = "rejected"
          /\ fetchCall.result = TimeoutMessage
          /\ fetchCall.settledAt = API_TIMEOUT)
  /\ [](fetchCall.cause = "response" =>
          /\ fetchCall.state = "fulfilled"
          /\ fetchCall.result = "response"
          /\ fetchCall.settledAt <= API_TIMEOUT)
  /\ [](fetchCall.cause = "fetchError" =>
          /\ fetchCall.state = "rejected"
          /\ fetchCall.settledAt <= API_TIMEOUT
          /\ fetchCall.result =
               IF fetchCall.onLine THEN fetchCall.error ELSE OfflineMessage)
  /\ [](fetchCall.cause = "offline" =>
          /\ fetchCall.state = "rejected"
          /\ fetchCall.result = OfflineMessage
          /\ timeoutId = "none")
  /\ [](fetchCall.state \in {"fulfilled", "rejected"} =>
          timeoutId # "armed" /\ fetchCall.abortsAfterSettle = 0)
  /\ (fetchCall.state = "pending" ~> fetchCall.state # "pending")

\* A call whose fetch failed while the browser was offline has been settled
\* long enough for its abort timer to have come due.
C23_Witness ==
  /\ fetchCall.cause = "fetchError"
  /\ ~fetchCall.onLine
  /\ fetchCall.result = OfflineMessage
  /\ fetchCall.settledAt < API_TIMEOUT
  /\ fetchCall.elapsed > API_TIMEOUT


\* C24: after showSnackbar the snackbar shows the given message; it stays
\* visible until 4 seconds after the most recent showSnackbar call, when its
\* timer hides it, unless hideSnackbar is called earlier; at most one
\* auto-dismiss timer is pending at any time, so the timer of an earlier
\* message never hides a later one before that one's 4 seconds have passed.
C24_OneTimerHidesAfterDelay ==
  /\ Cardinality(PendingTimers(timers)) <= 1
  /\ snackbar.hiddenBy = "none" /\ snackbar.message \in SnackbarMessages =>
       ~snackbar.hidden
  /\ ~snackbar.hidden =>
       /\ snackbar.age <= SNACKBAR_DELAY
       /\ snackbarTimeout \in PendingTimers(timers)
       /\ timers[snackbarTimeout].left = SNACKBAR_DELAY - snackbar.age
  /\ snackbar.hidden /\ snackbar.hiddenBy = "timer" =>
       snackbar.age = SNACKBAR_DELAY
  /\ snackbar.hidden => PendingTimers(timers) = {}

\* A later message is still shown at the moment the cancelled timer of an
\* earlier message would have run.
C24_Witness ==
  /\ Len(timers) >= 2
  /\ timers[1].state = "cleared"
  /\ timers[1].left \in 1..(SNACKBAR_DELAY - 1)
  /\ timers[2].state = "pending"
  /\ ~snackbar.hidden
  /\ snackbar.age >= timers[1].left


\* C27: navigation cannot go beyond the current period: state.selectedDate
\* is never later than today, the selected (year, month) is never later
\* than the current month, and each Next button is disabled exactly when
\* the selection is at or beyond the current day or month.
C27_NeverBeyondCurrentPeriod ==
  /\ TextLeq(selectedDate, BrowserToday)
  /\ selectedYear * 12 + selectedMonth <= CurrentYear * 12 + CurrentMonth
  /\ nextDayBtn.disabled <=> TextLeq(BrowserToday, selectedDate)
  /\ nextMonthBtn.disabled <=>
       selectedYear * 12 + selectedMonth >= CurrentYear * 12 + CurrentMonth

\* C29: in every zone goToPreviousDay moves state.selectedDate back by
\* exactly one calendar day, goToNextDay forward by exactly one, and
\* goToPreviousDay followed by goToNextDay restores the date.
C29_DayStepsAreOneCalendarDay ==
  /\ lastNav.op = "goToPreviousDay" =>
       DayNumber(selectedDate) = DayNumber(lastNav.from) - 1
  /\ lastNav.op = "goToNextDay" =>
       DayNumber(selectedDate) = DayNumber(lastNav.from) + 1
  /\ lastNav.op = "goToNextDay" /\ lastNav.prevOp = "goToPreviousDay" =>
       selectedDate = lastNav.prevFrom


\* C25: the loading overlay is visible (state.isLoading) in every state in
\* which a loadExpenses call awaits its response, also when calls overlap,
\* and hidden once none does.
C25_OverlayWhileLoading ==
  /\ loads # <<>> => isLoading
  /\ loads = <<>> => ~isLoading

\* C28: once every loadExpenses call has settled, state.expenses is the
\* result for the view, date or month and filters now selected: the late
\* response to an earlier request does not overwrite a later result.
C28_ShownResultIsForSelection ==
  loads = <<>> =>
    expenses = LoadRequest(stateFilters, currentView, selectedDate,
                           selectedYear, selectedMonth)


\* The calls of loadExpenses that handleFormSubmit awaits.
AwaitedReloads == {i \in DOMAIN loads : loads[i].caller = "handleFormSubmit"}

\* C26 as stated: from the start of handleFormSubmit until its request has
\* settled the Save button is disabled and reads 'Saving...'; once the
\* request has settled, on success and on error alike, the button is
\* enabled again with its original text; no second create or update request
\* is sent while one is in flight.
C26_EnabledOnceRequestSettled ==
  /\ submits # <<>> => saveBtn.disabled /\ saveBtn.textContent = "Saving..."
  /\ submits = <<>> => ~saveBtn.disabled /\ saveBtn.textContent = "Save"
  /\ Len(submits) <= 1

\* C26, amended: the Save button is disabled and reads 'Saving...' from the
\* start of handleFormSubmit until the handler finishes, which is when the
\* request has failed or, after a successful request, when the loadExpenses
\* call that follows has returned; then it is enabled again with its
\* original text; no second create or update request is sent while one is
\* in flight.
C26_EnabledOnceHandlerFinished ==
  /\ submits # <<>> \/ AwaitedReloads # {} =>
       saveBtn.disabled /\ saveBtn.textContent = "Saving..."
  /\ submits = <<>> /\ AwaitedReloads = {} =>
       ~saveBtn.disabled /\ saveBtn.textContent = "Save"
  /\ Len(submits) + Cardinality(AwaitedReloads) <= 1

\* A save has succeeded and its reload is still awaited.
C26_Witness ==
  /\ submits = <<>>
  /\ AwaitedReloads # {}
  /\ saveBtn.disabled
  /\ ~snackbar.hidden

====
